---- MODULE Spec2Model ----
(***************************************************************************)
(* DocChatbot (src/doc_chatbot.py): the index lifecycle on disk, the two   *)
(* query modes and the session log, as one state machine.                  *)
(*                                                                         *)
(* Text is a sequence of one-character tokens, so that concatenation is    *)
(* \o and "ends with" is a suffix test.  Python's None and "" are both the *)
(* empty sequence / empty string wherever the code only tests truthiness.  *)
(***************************************************************************)
EXTENDS Integers, Sequences, FiniteSets, TLC

VARIABLES
    llm_name,          \* provider chosen at construction ("gemini" | "ollama")
    indexing_enabled,  \* self.indexing_enabled
    indexed_docs,      \* self.indexed_docs: the vector store kept in memory
    loaded_docs,       \* self.loaded_docs
    session_log,       \* self.session_log
    disk,              \* the directories under self.index_dir
    chat_logs,         \* the files under chat_logs/
    last               \* the last call: its arguments, what it returned or raised,
                       \* and what it handed to the generation provider

vars == <<llm_name, indexing_enabled, indexed_docs, loaded_docs, session_log,
          disk, chat_logs, last>>

-----------------------------------------------------------------------------
(* Bounds of the model *)

MaxLog == 2        \* longest session log explored
TopK == 2          \* chunks a similarity search returns at most

(* Constructor parameters (scaled down from 1000 / 200) *)
chunk_size == 2
chunk_overlap == 1

-----------------------------------------------------------------------------
(* Input domains *)

LLMNames == {"gemini", "ollama"}
IndexNames == {"A", "B"}
Folders == {"f1", "f2", "blank", "nodocs", "missing"}
Queries == {<<"Q">>, <<"W">>}
Contents == {"R"}
LogNames == {"chat_log_T"}
Timestamps == {"T"}
NL == "\n"
SystemPrompts == {<<>>, <<"S">>}
UserPrompts == {<<>>, <<"U">>}

Min(a, b) == IF a < b THEN a ELSE b

IsPrefix(s, t) == Len(s) <= Len(t) /\ SubSeq(t, 1, Len(s)) = s
IsSuffix(s, t) == Len(s) <= Len(t) /\ SubSeq(t, Len(t) - Len(s) + 1, Len(t)) = s
Occurs(s, t) == \E i \in 0..(Len(t) - Len(s)) : SubSeq(t, i + 1, i + Len(s)) = s

-----------------------------------------------------------------------------
(* Values *)

\* a backing file: index.faiss holds the vectors of `chunks` under embedder
\* `emb`; index.pkl holds the chunks themselves (the docstore)
NoFile == [present |-> FALSE, emb |-> "", chunks |-> <<>>]
FaissFile(emb, chunks) == [present |-> TRUE, emb |-> emb, chunks |-> chunks]
PklFile(chunks) == [present |-> TRUE, emb |-> "", chunks |-> chunks]
NoDir == [exists |-> FALSE, faiss |-> NoFile, pkl |-> NoFile]
\* a FAISS vector store in memory
NoStore == [present |-> FALSE, emb |-> "", vecs |-> <<>>, chunks |-> <<>>]
Store(emb, vecs, chunks) == [present |-> TRUE, emb |-> emb, vecs |-> vecs, chunks |-> chunks]
NoResp == [kind |-> "none", content |-> ""]

NoCall == [op |-> "init", name |-> "", query |-> <<>>, err |-> "",
           retBool |-> FALSE, retCount |-> 0, retNames |-> {},
           resp |-> NoResp, invoked |-> FALSE, prompt |-> <<>>,
           messages |-> <<>>, docs |-> <<>>, store |-> NoStore,
           system_prompt |-> <<>>, user_prompt |-> <<>>,
           mode |-> "", replaced |-> NoFile]

Call(op, name, query) == [NoCall EXCEPT !.op = op, !.name = name, !.query = query]
Raise(op, name, query, err) == [Call(op, name, query) EXCEPT !.err = err]

-----------------------------------------------------------------------------
(* load_documents: what the loaders find in a folder *)

FolderDocs(folder) ==
    CASE folder = "f1" -> << <<"a", "b", "c">> >>
      [] folder = "f2" -> << <<"A">>, <<"B">> >>
      [] folder = "blank" -> << <<>> >>
      [] OTHER -> <<>>

LoadDocs(folder) ==
    IF folder = "missing"
    THEN [err |-> "ValueError:NotADirectory", docs |-> <<>>]
    ELSE IF FolderDocs(folder) = <<>>
    THEN [err |-> "ValueError:NoDocumentsLoaded", docs |-> <<>>]
    ELSE [err |-> "", docs |-> FolderDocs(folder)]

load_documents(folder) ==
    LET r == LoadDocs(folder) IN
    /\ loaded_docs' = IF r.err = "" THEN r.docs ELSE loaded_docs
    /\ last' = [Raise("load_documents", folder, <<>>, r.err) EXCEPT !.docs = r.docs]
    /\ UNCHANGED <<llm_name, indexing_enabled, indexed_docs, session_log, disk, chat_logs>>

-----------------------------------------------------------------------------
(* The text splitter: windows of chunk_size characters, each starting      *)
(* chunk_size - chunk_overlap after the previous one; no empty chunk.      *)

RECURSIVE split_text(_)
split_text(s) ==
    IF s = <<>> THEN <<>>
    ELSE IF Len(s) <= chunk_size THEN <<s>>
    ELSE <<SubSeq(s, 1, chunk_size)>>
         \o split_text(SubSeq(s, chunk_size - chunk_overlap + 1, Len(s)))

RECURSIVE split_documents(_)
split_documents(docs) ==
    IF docs = <<>> THEN <<>>
    ELSE split_text(Head(docs)) \o split_documents(Tail(docs))

\* the document lists a caller may pass to a query
Documents == {<<>>} \cup {FolderDocs(f) : f \in {"f1", "f2", "blank"}}

-----------------------------------------------------------------------------
(* index_documents *)

\* FAISS.save_local writes index.faiss, then index.pkl; `save` says how far it got
SaveOutcomes == {"ok", "fail_faiss", "fail_pkl"}

\* save_local leaving backing files alone that are already there
save_local_keep_existing(dir, store, save) ==
    CASE save = "fail_faiss" -> dir
      [] save = "fail_pkl" ->
            [dir EXCEPT !.faiss = IF @.present THEN @ ELSE FaissFile(store.emb, store.vecs)]
      [] OTHER ->
            [dir EXCEPT !.faiss = IF @.present THEN @ ELSE FaissFile(store.emb, store.vecs),
                        !.pkl = IF @.present THEN @ ELSE PklFile(store.chunks)]

save_local(dir, store, save) ==
    CASE save = "fail_faiss" -> dir
      [] save = "fail_pkl" -> [dir EXCEPT !.faiss = FaissFile(store.emb, store.vecs)]
      [] OTHER -> [dir EXCEPT !.faiss = FaissFile(store.emb, store.vecs),
                              !.pkl = PklFile(store.chunks)]

\* lines 136-138: the directory is made before the save is attempted
PrepareDir(dir) == IF dir.exists THEN dir ELSE [dir EXCEPT !.exists = TRUE]

index_documents(folder_path, index_name) ==
    LET r == LoadDocs(folder_path)
        split_docs == split_documents(r.docs)
        vector_store == Store(llm_name, split_docs, split_docs)
        op == "index_documents"
    IN
    IF r.err # ""
    THEN /\ last' = Raise(op, index_name, <<>>, r.err)
         /\ UNCHANGED <<llm_name, indexing_enabled, indexed_docs, loaded_docs,
                        session_log, disk, chat_logs>>
    ELSE
    /\ loaded_docs' = r.docs
    /\ UNCHANGED <<llm_name, session_log, chat_logs>>
    /\ IF split_docs = <<>>
       THEN /\ last' = Raise(op, index_name, <<>>, "ValueError:NoContent")
            /\ UNCHANGED <<indexing_enabled, indexed_docs, disk>>
       ELSE
       \/ \* FAISS.from_documents raises (the embedding provider fails)
          /\ last' = Raise(op, index_name, <<>>, "ValueError:CreateFailed")
          /\ UNCHANGED <<indexing_enabled, indexed_docs, disk>>
       \/ \E save \in SaveOutcomes :
          /\ disk' = [disk EXCEPT ![index_name] =
                         save_local(PrepareDir(disk[index_name]), vector_store, save)]
          /\ IF save = "ok"
             THEN /\ indexed_docs' = vector_store
                  /\ indexing_enabled' = TRUE
                  /\ last' = [Call(op, index_name, <<>>)
                                 EXCEPT !.replaced = disk[index_name].pkl]
             ELSE /\ last' = Raise(op, index_name, <<>>, "ValueError:SaveFailed")
                  /\ UNCHANGED <<indexing_enabled, indexed_docs>>

-----------------------------------------------------------------------------
(* load_index, list_index, delete_index, delete_all_indexes *)

\* load_index answering from the vector store the session built last
load_index_cached(index_name, load_ok) ==
    IF indexed_docs.present
    THEN [err |-> "", store |-> indexed_docs]
    ELSE [err |-> "FileNotFoundError", store |-> NoStore]

\* what load_index returns or raises, from the files on disk now
load_index(index_name, load_ok) ==
    LET dir == disk[index_name] IN
    IF dir.faiss.present /\ dir.pkl.present
    THEN IF load_ok
         THEN [err |-> "", store |-> Store(dir.faiss.emb, dir.faiss.chunks, dir.pkl.chunks)]
         ELSE [err |-> "ValueError:LoadFailed", store |-> NoStore]
    ELSE [err |-> "FileNotFoundError", store |-> NoStore]

LoadIndex(index_name, load_ok) ==
    LET r == load_index(index_name, load_ok) IN
    /\ last' = [Raise("load_index", index_name, <<>>, r.err) EXCEPT !.store = r.store]
    /\ UNCHANGED <<llm_name, indexing_enabled, indexed_docs, loaded_docs,
                   session_log, disk, chat_logs>>

\* every directory under the index root
list_index == {d \in IndexNames : disk[d].exists}

ListIndex ==
    /\ last' = [Call("list_index", "", <<>>) EXCEPT !.retNames = list_index]
    /\ UNCHANGED <<llm_name, indexing_enabled, indexed_docs, loaded_docs,
                   session_log, disk, chat_logs>>

\* delete_index looking at the backing files instead of the directory
delete_index_valid_only(index_name) ==
    /\ disk' = IF disk[index_name].faiss.present /\ disk[index_name].pkl.present
               THEN [disk EXCEPT ![index_name] = NoDir]
               ELSE disk
    /\ last' = [Call("delete_index", index_name, <<>>)
                   EXCEPT !.retBool = disk[index_name].faiss.present
                                      /\ disk[index_name].pkl.present]
    /\ UNCHANGED <<llm_name, indexing_enabled, indexed_docs, loaded_docs,
                   session_log, chat_logs>>

delete_index(index_name) ==
    /\ disk' = IF disk[index_name].exists
               THEN [disk EXCEPT ![index_name] = NoDir]
               ELSE disk
    /\ last' = [Call("delete_index", index_name, <<>>)
                   EXCEPT !.retBool = disk[index_name].exists]
    /\ UNCHANGED <<llm_name, indexing_enabled, indexed_docs, loaded_docs,
                   session_log, chat_logs>>

\* delete_all_indexes also switching the engine back to long-context mode
delete_all_indexes_resetting ==
    /\ disk' = [d \in IndexNames |-> NoDir]
    /\ indexing_enabled' = FALSE
    /\ last' = [Call("delete_all_indexes", "", <<>>)
                   EXCEPT !.retCount = Cardinality({d \in IndexNames : disk[d].exists})]
    /\ UNCHANGED <<llm_name, indexed_docs, loaded_docs, session_log, chat_logs>>

delete_all_indexes ==
    /\ disk' = [d \in IndexNames |-> NoDir]
    /\ last' = [Call("delete_all_indexes", "", <<>>)
                   EXCEPT !.retCount = Cardinality({d \in IndexNames : disk[d].exists})]
    /\ UNCHANGED <<llm_name, indexing_enabled, indexed_docs, loaded_docs,
                   session_log, chat_logs>>

\* another process removes one backing file, or the whole directory
Files == {"index.faiss", "index.pkl", "dir"}

ExternalRemove(index_name, file) ==
    /\ disk[index_name].exists
    /\ disk' = [disk EXCEPT ![index_name] =
                  CASE file = "index.faiss" -> [@ EXCEPT !.faiss = NoFile]
                    [] file = "index.pkl" -> [@ EXCEPT !.pkl = NoFile]
                    [] OTHER -> NoDir]
    /\ disk' # disk
    /\ last' = Call("external", index_name, <<>>)
    /\ UNCHANGED <<llm_name, indexing_enabled, indexed_docs, loaded_docs,
                   session_log, chat_logs>>

-----------------------------------------------------------------------------
(* Prompt assembly and the generation provider *)

\* lines 206-210 and 258-262: system prompt, blank line, query, blank line, user prompt
final_query(query, system_prompt, user_prompt) ==
    LET q1 == IF system_prompt # <<>> THEN system_prompt \o <<NL, NL>> \o query ELSE query
    IN IF user_prompt # <<>> THEN q1 \o <<NL, NL>> \o user_prompt ELSE q1

\* "\n".join(doc.page_content for doc in docs)
RECURSIVE Join(_)
Join(docs) ==
    IF docs = <<>> THEN <<>>
    ELSE IF Len(docs) = 1 THEN Head(docs)
    ELSE Head(docs) \o <<NL>> \o Join(Tail(docs))

\* what self.llm.invoke returns: an AIMessage from Gemini, a str from Ollama
Response(content) ==
    [kind |-> IF llm_name = "gemini" THEN "AIMessage" ELSE "str", content |-> content]

DefaultSystem == <<"D">>     \* "You are a helpful assistant."

Message(role, content) == [role |-> role, content |-> content]

-----------------------------------------------------------------------------
(* query_long_content *)

long_prompt_docs_first(docs, query, system_prompt, user_prompt) ==
    LET combined_content == Join(docs)
        fq == final_query(query, system_prompt, user_prompt)
    IN IF combined_content # <<>> THEN combined_content \o <<NL, NL>> \o fq ELSE fq

long_prompt(docs, query, system_prompt, user_prompt) ==
    LET combined_content == Join(docs)
        fq == final_query(query, system_prompt, user_prompt)
    IN IF combined_content # <<>> THEN fq \o <<NL, NL>> \o combined_content ELSE fq

\* query_long_content recording the exchange as the indexed query does
QueryLong_logging(op, docs, query, system_prompt, user_prompt) ==
    \E invoke_ok \in BOOLEAN, content \in Contents :
    /\ Len(session_log) < MaxLog
    /\ last' = [Call(op, "", query) EXCEPT
                   !.mode = "long",
                   !.invoked = TRUE,
                   !.system_prompt = system_prompt,
                   !.user_prompt = user_prompt,
                   !.docs = docs,
                   !.prompt = long_prompt(docs, query, system_prompt, user_prompt),
                   !.err = IF invoke_ok THEN "" ELSE "Exception:Invoke",
                   !.resp = IF invoke_ok THEN Response(content) ELSE NoResp]
    /\ session_log' = IF invoke_ok
                      THEN Append(session_log, [user |-> query, bot |-> Response(content)])
                      ELSE session_log
    /\ UNCHANGED <<llm_name, indexing_enabled, indexed_docs, loaded_docs, disk, chat_logs>>

QueryLong(op, docs, query, system_prompt, user_prompt) ==
    \E invoke_ok \in BOOLEAN, content \in Contents :
    /\ last' = [Call(op, "", query) EXCEPT
                   !.mode = "long",
                   !.invoked = TRUE,
                   !.system_prompt = system_prompt,
                   !.user_prompt = user_prompt,
                   !.docs = docs,
                   !.prompt = long_prompt(docs, query, system_prompt, user_prompt),
                   !.err = IF invoke_ok THEN "" ELSE "Exception:Invoke",
                   !.resp = IF invoke_ok THEN Response(content) ELSE NoResp]
    /\ UNCHANGED <<llm_name, indexing_enabled, indexed_docs, loaded_docs,
                   session_log, disk, chat_logs>>

query_long_content(docs, query, system_prompt, user_prompt) ==
    QueryLong("query_long_content", docs, query, system_prompt, user_prompt)

-----------------------------------------------------------------------------
(* query_indexed_documents *)

\* the positions a similarity search may rank first: Min(TopK, n) distinct ones
Rankings(n) ==
    LET k == Min(TopK, n) IN
    {r \in [1..k -> 1..n] : \A i, j \in 1..k : i # j => r[i] # r[j]}

\* self.session_log.append({"user": query, "bot": response}) (line 288)
LogEntry(query, response) == [user |-> query, bot |-> response]
append_log_front(log, query, response) == <<LogEntry(query, response)>> \o log
append_log(log, query, response) == Append(log, LogEntry(query, response))

\* lines 274-283: a provider failure is re-raised as a ValueError naming the provider
invoke_error_swallowed == ""
invoke_error ==
    IF llm_name = "gemini" THEN "ValueError:InvokeGemini" ELSE "ValueError:InvokeOllama"

indexed_messages(docs, query, system_prompt, user_prompt) ==
    <<Message("system", IF system_prompt # <<>> THEN system_prompt ELSE DefaultSystem)>>
    \o [i \in 1..Len(docs) |-> Message("human", docs[i])]
    \o <<Message("human", final_query(query, system_prompt, user_prompt))>>

\* the string handed to Ollama (line 281)
ollama_input(docs, query, system_prompt, user_prompt) ==
    final_query(query, system_prompt, user_prompt)

QueryIndexed(op, query, index_name, system_prompt, user_prompt) ==
    /\ Len(session_log) < MaxLog
    /\ UNCHANGED <<llm_name, indexing_enabled, indexed_docs, loaded_docs, disk, chat_logs>>
    /\ IF index_name = ""
       THEN /\ last' = [Raise(op, index_name, query, "ValueError:IndexNameRequired") EXCEPT !.mode = "indexed"]
            /\ UNCHANGED session_log
       ELSE
       \E load_ok \in BOOLEAN :
       LET l == load_index(index_name, load_ok) IN
       IF l.err # ""
       THEN /\ last' = [Raise(op, index_name, query, l.err) EXCEPT !.mode = "indexed"]
            /\ UNCHANGED session_log
       ELSE
       \E search_ok \in BOOLEAN, rank \in Rankings(Len(l.store.vecs)) :
       IF ~search_ok
       THEN /\ last' = [Raise(op, index_name, query, "Exception:Search") EXCEPT !.mode = "indexed"]
            /\ UNCHANGED session_log
       ELSE IF \E i \in DOMAIN rank : rank[i] > Len(l.store.chunks)
       THEN /\ last' = [Raise(op, index_name, query, "KeyError") EXCEPT !.mode = "indexed"]
            /\ UNCHANGED session_log
       ELSE
       \E invoke_ok \in BOOLEAN, content \in Contents :
       LET docs == [i \in DOMAIN rank |-> l.store.chunks[rank[i]]]
           sent == [Call(op, index_name, query) EXCEPT
                       !.mode = "indexed",
                       !.invoked = TRUE,
                       !.system_prompt = system_prompt,
                       !.user_prompt = user_prompt,
                       !.docs = docs,
                       !.messages = IF llm_name = "gemini"
                                    THEN indexed_messages(docs, query, system_prompt, user_prompt)
                                    ELSE <<>>,
                       !.prompt = IF llm_name = "gemini" THEN <<>>
                                  ELSE ollama_input(docs, query, system_prompt, user_prompt)]
       IN
       IF ~invoke_ok
       THEN /\ last' = [sent EXCEPT !.err = invoke_error]
            /\ UNCHANGED session_log
       ELSE /\ last' = [sent EXCEPT !.resp = Response(content)]
            /\ session_log' = append_log(session_log, query, Response(content))

query_indexed_documents(query, index_name, system_prompt, user_prompt) ==
    QueryIndexed("query_indexed_documents", query, index_name, system_prompt, user_prompt)

-----------------------------------------------------------------------------
(* query_documents *)

\* the index name query_documents hands to query_indexed_documents (line 231): none
dispatch_index_name == ""

query_documents(user_query, supplied, documents, system_prompt, user_prompt) ==
    LET op == "query_documents" IN
    IF ~supplied
    THEN \* debug is on: `for met in documents` over None
         /\ last' = Raise(op, "", user_query, "TypeError")
         /\ UNCHANGED <<llm_name, indexing_enabled, indexed_docs, loaded_docs,
                        session_log, disk, chat_logs>>
    ELSE IF indexing_enabled
    THEN QueryIndexed(op, user_query, dispatch_index_name, system_prompt, user_prompt)
    ELSE IF documents # <<>>
    THEN QueryLong(op, documents, user_query, system_prompt, user_prompt)
    ELSE /\ last' = Raise(op, "", user_query, "ValueError:NoDocumentsLoaded")
         /\ UNCHANGED <<llm_name, indexing_enabled, indexed_docs, loaded_docs,
                        session_log, disk, chat_logs>>

-----------------------------------------------------------------------------
(* save_chat_log, load_chat_log *)

NoLogFile == [present |-> FALSE, entries |-> <<>>]
LogFiles == LogNames \cup {"chat_log_" \o t : t \in Timestamps}

\* str(x): a str is itself; an AIMessage prints as content='...' and more
Str(r) ==
    IF r.kind = "AIMessage"
    THEN [kind |-> "str", content |-> "content='" \o r.content \o "'"]
    ELSE r

serializable_log(log) ==
    [i \in 1..Len(log) |-> [user |-> log[i].user, bot |-> Str(log[i].bot)]]

save_chat_log(log_name, timestamp) ==
    LET name == IF log_name = "" THEN "chat_log_" \o timestamp ELSE log_name IN
    /\ chat_logs' = [chat_logs EXCEPT ![name] =
                        [present |-> TRUE, entries |-> serializable_log(session_log)]]
    /\ last' = Call("save_chat_log", name, <<>>)
    /\ UNCHANGED <<llm_name, indexing_enabled, indexed_docs, loaded_docs,
                   session_log, disk>>

\* load_chat_log putting the stored entries in place of the session's
load_chat_log_replacing(log_name) ==
    /\ Len(session_log) + Len(chat_logs[log_name].entries) <= MaxLog
    /\ session_log' = IF chat_logs[log_name].present
                      THEN chat_logs[log_name].entries
                      ELSE session_log
    /\ last' = [Call("load_chat_log", log_name, <<>>)
                   EXCEPT !.retBool = chat_logs[log_name].present]
    /\ UNCHANGED <<llm_name, indexing_enabled, indexed_docs, loaded_docs,
                   disk, chat_logs>>

load_chat_log(log_name) ==
    /\ Len(session_log) + Len(chat_logs[log_name].entries) <= MaxLog
    /\ session_log' = IF chat_logs[log_name].present
                      THEN session_log \o chat_logs[log_name].entries
                      ELSE session_log
    /\ last' = [Call("load_chat_log", log_name, <<>>)
                   EXCEPT !.retBool = chat_logs[log_name].present]
    /\ UNCHANGED <<llm_name, indexing_enabled, indexed_docs, loaded_docs,
                   disk, chat_logs>>

Init ==
    /\ llm_name \in LLMNames
    /\ indexing_enabled = FALSE
    /\ indexed_docs = NoStore
    /\ loaded_docs = <<>>
    /\ session_log = <<>>
    /\ disk = [n \in IndexNames |-> NoDir]
    /\ chat_logs = [n \in LogFiles |-> NoLogFile]
    /\ last = NoCall

-----------------------------------------------------------------------------
(* The whole program: every public method, with every input of the model.  *)
(* The specifications after it take the same actions over fewer inputs     *)
(* (NextIndex, NextLog and NextPrompt each imply Next), so every behaviour *)
(* TLC explores under them is a behaviour of Spec.                         *)

Next ==
    \/ \E folder \in Folders : load_documents(folder)
    \/ \E folder \in Folders, n \in IndexNames : index_documents(folder, n)
    \/ \E n \in IndexNames, load_ok \in BOOLEAN : LoadIndex(n, load_ok)
    \/ ListIndex
    \/ \E n \in IndexNames : delete_index(n)
    \/ delete_all_indexes
    \/ \E n \in IndexNames, f \in Files : ExternalRemove(n, f)
    \/ \E d \in Documents, q \in Queries, sp \in SystemPrompts, up \in UserPrompts :
          query_long_content(d, q, sp, up)
    \/ \E q \in Queries, n \in IndexNames \cup {""}, sp \in SystemPrompts, up \in UserPrompts :
          query_indexed_documents(q, n, sp, up)
    \/ \E q \in Queries, supplied \in BOOLEAN, d \in Documents,
          sp \in SystemPrompts, up \in UserPrompts :
          query_documents(q, supplied, d, sp, up)
    \/ \E n \in LogNames \cup {""}, t \in Timestamps : save_chat_log(n, t)
    \/ \E n \in LogFiles : load_chat_log(n)

Spec == Init /\ [][Next]_vars

-----------------------------------------------------------------------------
(* The index lifecycle: every index operation with every input, and the    *)
(* queries with one query text and no extra prompts.                       *)

NextIndex ==
    \/ \E folder \in Folders : load_documents(folder)
    \/ \E folder \in Folders, n \in IndexNames : index_documents(folder, n)
    \/ \E n \in IndexNames, load_ok \in BOOLEAN : LoadIndex(n, load_ok)
    \/ ListIndex
    \/ \E n \in IndexNames : delete_index(n)
    \/ delete_all_indexes
    \/ \E n \in IndexNames, f \in Files : ExternalRemove(n, f)
    \/ \E n \in IndexNames \cup {""} : query_indexed_documents(<<"Q">>, n, <<>>, <<>>)
    \/ \E supplied \in BOOLEAN, d \in {<<>>, FolderDocs("f2")} :
          query_documents(<<"Q">>, supplied, d, <<>>, <<>>)

SpecIndex == Init /\ [][NextIndex]_vars

-----------------------------------------------------------------------------
(* The session log: every query method with two query texts and no extra   *)
(* prompts, the chat-log files, and one index that is built and deleted.   *)

NextLog ==
    \/ \E folder \in {"f2", "missing"} : index_documents(folder, "A")
    \/ delete_index("A")
    \/ \E q \in Queries : query_long_content(FolderDocs("f2"), q, <<>>, <<>>)
    \/ \E q \in Queries, n \in {"A", ""} : query_indexed_documents(q, n, <<>>, <<>>)
    \/ \E q \in Queries, supplied \in BOOLEAN, d \in {<<>>, FolderDocs("f2")} :
          query_documents(q, supplied, d, <<>>, <<>>)
    \/ \E n \in LogNames \cup {""}, t \in Timestamps : save_chat_log(n, t)
    \/ \E n \in LogFiles : load_chat_log(n)

SpecLog == Init /\ [][NextLog]_vars

-----------------------------------------------------------------------------
(* Prompt assembly: the queries with and without system and user prompts,  *)
(* over every document list and over one index built from either folder.   *)

NextPrompt ==
    \/ \E folder \in {"f1", "f2"} : index_documents(folder, "A")
    \/ \E d \in Documents, sp \in SystemPrompts, up \in UserPrompts :
          query_long_content(d, <<"Q">>, sp, up)
    \/ \E sp \in SystemPrompts, up \in UserPrompts :
          query_indexed_documents(<<"Q">>, "A", sp, up)
    \/ \E d \in Documents, sp \in SystemPrompts, up \in UserPrompts :
          query_documents(<<"Q">>, TRUE, d, sp, up)

SpecPrompt == Init /\ [][NextPrompt]_vars

-----------------------------------------------------------------------------
(* An index root that already holds an index: the engine is constructed    *)
(* over a root where an earlier session, with either provider, built "A"   *)
(* (os.makedirs(index_dir, exist_ok=True) keeps what is there).            *)

ExistingIndex(emb) ==
    [exists |-> TRUE,
     faiss |-> FaissFile(emb, split_documents(FolderDocs("f2"))),
     pkl |-> PklFile(split_documents(FolderDocs("f2")))]

InitExisting ==
    /\ llm_name \in LLMNames
    /\ indexing_enabled = FALSE
    /\ indexed_docs = NoStore
    /\ loaded_docs = <<>>
    /\ session_log = <<>>
    /\ \E emb \in LLMNames :
          disk = [n \in IndexNames |-> IF n = "A" THEN ExistingIndex(emb) ELSE NoDir]
    /\ chat_logs = [n \in LogFiles |-> NoLogFile]
    /\ last = NoCall

NextExisting ==
    \/ \E n \in IndexNames : index_documents("f1", n)
    \/ \E n \in IndexNames, load_ok \in BOOLEAN : LoadIndex(n, load_ok)
    \/ ListIndex
    \/ \E n \in IndexNames : delete_index(n)
    \/ \E q \in Queries, n \in IndexNames : query_indexed_documents(q, n, <<>>, <<>>)

SpecExisting == InitExisting /\ [][NextExisting]_vars

-----------------------------------------------------------------------------
(* Properties *)

\* an index directory holding both backing files
IsValidIndex(dir) == dir.exists /\ dir.faiss.present /\ dir.pkl.present

\* errors that come from the environment of a query, not from its arguments
ProviderErrors == {"ValueError:InvokeGemini", "ValueError:InvokeOllama", "Exception:Invoke"}
EnvironmentErrors == ProviderErrors \cup {"ValueError:LoadFailed", "Exception:Search"}

\* C1: with indexing enabled, a query_documents call that is given documents
\* and whose index load, search and provider call do not fail is answered in
\* indexed mode: no error, the provider invoked, the response returned.
C1_IndexedDispatchAnswers ==
    (/\ last.op = "query_documents"
     /\ indexing_enabled
     /\ last.err \notin EnvironmentErrors \cup {"TypeError"})
    => (last.err = "" /\ last.invoked /\ last.resp # NoResp)

\* C2: a successful query_indexed_documents call leaves the session log equal
\* to the log before the call with one entry appended, that entry pairing the
\* call's query with the response the provider returned.
C2_SuccessfulQueryAppendsOne ==
    [][(last'.op = "query_indexed_documents" /\ last'.err = "")
       => /\ Len(session_log') = Len(session_log) + 1
          /\ SubSeq(session_log', 1, Len(session_log)) = session_log
          /\ session_log'[Len(session_log')] = [user |-> last'.query, bot |-> last'.resp]
          /\ last'.resp # NoResp]_vars

\* C2 witness: a successful indexed query made with an earlier, different
\* entry already in the log.
C2_Witness ==
    /\ last.op = "query_indexed_documents"
    /\ last.err = ""
    /\ Len(session_log) = 2
    /\ session_log[1] # session_log[2]
    /\ session_log[2].user = last.query

\* C3: a query_indexed_documents call with no index name, with an index whose
\* backing files are missing, or whose provider call fails raises an error
\* and leaves the session log as it was; and after a failed query a query
\* naming a valid index, whose load, search and provider call do not fail,
\* succeeds and is logged.
C3_FailedQueryStep ==
    (last'.op = "query_indexed_documents")
    => /\ (last'.name = "" => last'.err = "ValueError:IndexNameRequired")
       /\ (last'.name # "" /\ ~IsValidIndex(disk[last'.name])
             => last'.err = "FileNotFoundError")
       /\ (last'.invoked /\ last'.resp = NoResp => last'.err \in ProviderErrors)
       /\ (last'.err # "" => session_log' = session_log /\ last'.resp = NoResp)
       /\ (/\ last.op \in {"query_indexed_documents", "query_documents", "query_long_content"}
           /\ last.err # ""
           /\ last'.name # ""
           /\ IsValidIndex(disk[last'.name])
           /\ last'.err \notin EnvironmentErrors
           => /\ last'.err = ""
              /\ session_log' = Append(session_log, [user |-> last'.query, bot |-> last'.resp]))

C3_FailedQueryLeavesLogAndEngine == [][C3_FailedQueryStep]_vars

\* C3 witness: a provider failure on a valid index, the log still holding its
\* one earlier entry, and a successful query possible as the next call.
C3_Witness ==
    /\ last.op = "query_indexed_documents"
    /\ last.err \in ProviderErrors
    /\ Len(session_log) = 1
    /\ IsValidIndex(disk[last.name])
    /\ ENABLED (/\ query_indexed_documents(<<"W">>, last.name, <<>>, <<>>)
                /\ last'.err = ""
                /\ Len(session_log') = 2)

\* the texts of `parts` in order, `sep` between neighbours
RECURSIVE JoinWith(_, _)
JoinWith(parts, sep) ==
    IF parts = <<>> THEN <<>>
    ELSE IF Len(parts) = 1 THEN parts[1]
    ELSE parts[1] \o sep \o JoinWith(Tail(parts), sep)

Separators == {<<>>, <<NL>>, <<NL, NL>>}
Given(text) == IF text # <<>> THEN <<text>> ELSE <<>>

\* C4: the string handed to Ollama by an indexed query is the system text,
\* the content of every retrieved chunk and the query, in that order (with
\* some separator between the parts); so every retrieved chunk occurs in it.
C4_FlatInputCarriesChunks ==
    (last.op = "query_indexed_documents" /\ llm_name = "ollama" /\ last.invoked)
    => /\ \E sys \in {last.system_prompt, DefaultSystem}, sep \in Separators,
             q \in {last.query,
                    final_query(last.query, last.system_prompt, last.user_prompt),
                    final_query(last.query, <<>>, last.user_prompt)} :
             last.prompt = JoinWith(Given(sys) \o last.docs \o <<q>>, sep)
       /\ \A i \in DOMAIN last.docs : Occurs(last.docs[i], last.prompt)

\* C5: the prompt query_long_content hands to the provider is the system
\* prompt (if given), a blank line, the query, a blank line and the user
\* prompt (if given), then the documents' contents joined by newlines in input
\* order; it ends with that joined text.
C5_LongPromptLayout ==
    (last.op = "query_long_content")
    => LET joined == JoinWith(last.docs, <<NL>>)
           head == JoinWith(Given(last.system_prompt) \o <<last.query>>
                            \o Given(last.user_prompt), <<NL, NL>>)
       IN /\ last.invoked
          /\ IsPrefix(head, last.prompt)
          /\ IsSuffix(joined, last.prompt)
          /\ Len(last.prompt) = Len(head) + Len(joined) + (IF joined # <<>> THEN 2 ELSE 0)

\* C5 witness: documents ["A"], ["B"] with both prompts given; the prompt
\* ends with "A\nB".
C5_Witness ==
    /\ last.op = "query_long_content"
    /\ last.docs = << <<"A">>, <<"B">> >>
    /\ last.system_prompt # <<>>
    /\ last.user_prompt # <<>>
    /\ IsSuffix(<<"A", NL, "B">>, last.prompt)
    /\ IsPrefix(<<"S", NL, NL, "Q", NL, NL, "U">>, last.prompt)

\* C6: list_index returns exactly the names of the directories under the
\* index root that hold both index.faiss and index.pkl.
C6_ListIsValidIndexes ==
    (last.op = "list_index")
    => last.retNames = {d \in IndexNames : IsValidIndex(disk[d])}

\* C7: an index_documents call that raises leaves no directory under the
\* index root that was not there before the call.
C7_FailedBuildLeavesNoDirectory ==
    [][(last'.op = "index_documents" /\ last'.err # "")
       => \A d \in IndexNames : disk'[d].exists => disk[d].exists]_vars

\* C8: delete_index returns whether the directory existed and leaves the name
\* absent from list_index, so a second call in a row on the same name returns
\* false after the first returned true; delete_all_indexes leaves the root
\* empty and returns the number of directories it removed, 0 on an empty root.
C8_DeleteStep ==
    /\ (last'.op = "delete_index")
       => /\ last'.retBool = disk[last'.name].exists
          /\ last'.name \notin {d \in IndexNames : disk'[d].exists}
          /\ \A d \in IndexNames \ {last'.name} : disk'[d] = disk[d]
          /\ (last.op = "delete_index" /\ last.name = last'.name /\ last.retBool
                => ~last'.retBool)
    /\ (last'.op = "delete_all_indexes")
       => /\ {d \in IndexNames : disk'[d].exists} = {}
          /\ last'.retCount = Cardinality({d \in IndexNames : disk[d].exists})
          /\ ({d \in IndexNames : disk[d].exists} = {} => last'.retCount = 0)

C8_DeleteIdempotent == [][C8_DeleteStep]_vars

\* C8 witness: delete_index has just returned true for a valid index while
\* another directory stays, and the same call made again returns false.
C8_Witness ==
    /\ last.op = "delete_index"
    /\ last.retBool
    /\ \E d \in IndexNames : disk[d].exists
    /\ ENABLED (delete_index(last.name) /\ ~last'.retBool)

\* C9: load_index raises FileNotFoundError whenever a backing file of the
\* named index is missing on disk at the call, whatever vector store the
\* session holds in memory, and what it returns is what the files hold; a
\* query_indexed_documents call naming such an index fails the same way
\* without invoking the provider.
C9_LoadReadsDisk ==
    /\ (last.op = "load_index")
       => LET dir == disk[last.name] IN
          /\ (~(dir.faiss.present /\ dir.pkl.present) => last.err = "FileNotFoundError")
          /\ (last.err = ""
                => last.store = Store(dir.faiss.emb, dir.faiss.chunks, dir.pkl.chunks))
    /\ (last.op = "query_indexed_documents" /\ last.name # ""
          /\ ~(disk[last.name].faiss.present /\ disk[last.name].pkl.present))
       => (last.err = "FileNotFoundError" /\ ~last.invoked /\ last.resp = NoResp)

\* C9 witness: the session built an index and holds its vector store in
\* memory, every index directory has since been removed, and a query naming
\* one of them has just failed.
C9_Witness ==
    /\ last.op = "query_indexed_documents"
    /\ last.name # ""
    /\ last.err = "FileNotFoundError"
    /\ indexed_docs.present
    /\ \A d \in IndexNames : ~disk[d].exists

\* C10: every step leaves the earlier session log a prefix of the later
\* one; load_chat_log raises nothing and leaves the log followed by the
\* stored entries of the named file, or unchanged when there is no such file.
C10_LogStep ==
    /\ IsPrefix(session_log, session_log')
    /\ (last'.op = "load_chat_log")
       => /\ last'.err = ""
          /\ session_log' = session_log \o
                (IF chat_logs[last'.name].present
                 THEN chat_logs[last'.name].entries ELSE <<>>)
          /\ last'.retBool = chat_logs[last'.name].present

C10_LogOnlyGrowsByAppending == [][C10_LogStep]_vars

\* C10 witness: load_chat_log has just put a stored entry after an entry the
\* session already held, which still comes first.
C10_Witness ==
    /\ last.op = "load_chat_log"
    /\ last.retBool
    /\ Len(session_log) = 2
    /\ Len(chat_logs[last.name].entries) = 1
    /\ session_log[2] = chat_logs[last.name].entries[1]
    /\ session_log[1] # session_log[2]

\* C11: loading or querying a valid index whose vectors were made by another
\* embedder than the engine's fails with an embedder-mismatch error and
\* returns no usable store.
C11_EmbedderCheckedAtLoad ==
    (/\ last.op \in {"load_index", "query_indexed_documents"}
     /\ last.name # ""
     /\ IsValidIndex(disk[last.name])
     /\ disk[last.name].faiss.emb # llm_name
     /\ last.err \notin EnvironmentErrors)
    => (last.err = "EmbedderMismatchError" /\ ~last.store.present /\ ~last.invoked)

\* C12: with indexing disabled, a query_documents call either is given a
\* non-empty document list and is handled in long-context mode, or (the list
\* empty or not supplied) raises the no-documents-loaded error without the
\* provider being invoked.
C12_NoIndexDispatch ==
    (last.op = "query_documents" /\ ~indexing_enabled)
    => \/ (last.mode = "long" /\ last.invoked /\ last.docs # <<>>)
       \/ (last.err = "ValueError:NoDocumentsLoaded" /\ ~last.invoked /\ last.mode = "")

\* C13: after a successful index_documents call, loading the index it named
\* yields a store of exactly the chunks of the documents just indexed, under
\* the engine's embedder, whatever the directory held before; the name is
\* listed by list_index.
C13_LastWriteWins ==
    (last.op = "index_documents" /\ last.err = "")
    => LET l == load_index(last.name, TRUE)
           Y == split_documents(loaded_docs)
       IN /\ l.err = ""
          /\ l.store = Store(llm_name, Y, Y)
          /\ Y # <<>>
          /\ last.name \in list_index

\* C13 witness: the successful build replaced an index of the same name that
\* held other chunks, none of which the directory still holds.
C13_Witness ==
    /\ last.op = "index_documents"
    /\ last.err = ""
    /\ last.replaced.present
    /\ last.replaced.chunks # disk[last.name].pkl.chunks
    /\ \A i \in DOMAIN last.replaced.chunks, j \in DOMAIN disk[last.name].pkl.chunks :
          last.replaced.chunks[i] # disk[last.name].pkl.chunks[j]

\* C14: indexing_enabled is false after construction; a step turns it on only
\* if it is an index_documents call that returned after a completed save; no
\* step turns it off; and a query_documents call made while it is on never
\* runs in long-context mode.
C14_FlagStep ==
    /\ (indexing_enabled => indexing_enabled')
    /\ (~indexing_enabled /\ indexing_enabled')
       => /\ last'.op = "index_documents"
          /\ last'.err = ""
          /\ IsValidIndex(disk'[last'.name])
    /\ (last'.op = "index_documents" /\ last'.err # "")
       => indexing_enabled' = indexing_enabled
    /\ (last'.op = "query_documents" /\ indexing_enabled)
       => (last'.mode # "long" /\ ~last'.invoked)

C14_IndexingFlagIsSticky ==
    /\ ~indexing_enabled
    /\ [][C14_FlagStep]_vars

\* C14 witness: indexing is enabled, every index directory is gone again, and
\* a query_documents call has just been handled in indexed mode.
C14_Witness ==
    /\ indexing_enabled
    /\ \A d \in IndexNames : ~disk[d].exists
    /\ last.op = "query_documents"
    /\ last.mode = "indexed"

\* C15: a query handled in long-context mode (query_long_content, or
\* query_documents on its long-context branch) leaves the session log as it
\* was whether the provider answers or fails; a query changes the log only
\* when it runs in indexed mode.
C15_LongStep ==
    /\ (last'.mode = "long") => session_log' = session_log
    /\ (last'.op = "query_long_content") => last'.mode = "long"
    /\ (/\ last'.op \in {"query_long_content", "query_documents", "query_indexed_documents"}
        /\ session_log' # session_log)
       => last'.mode = "indexed"

C15_LongContextNotLogged == [][C15_LongStep]_vars

\* C15 witness: the provider has just answered a long-context query and the
\* log holds only the one entry an earlier indexed query left.
C15_Witness ==
    /\ last.op = "query_long_content"
    /\ last.mode = "long"
    /\ last.err = ""
    /\ last.resp # NoResp
    /\ Len(session_log) = 1

====
